---------------------------- MODULE Spec2Model ----------------------------
(***************************************************************************)
(* The cluster-wide GET of a partitioned, replicated key/value store       *)
(* (dmap_get.go): version collection on the partition owner, quorum        *)
(* reconciliation, expiry/idleness gate, access-log bookkeeping and        *)
(* read-repair, for one key of one DMap.                                   *)
(*                                                                         *)
(* A Go pointer that may be nil is modelled as a sequence of length at     *)
(* most one: <<>> is nil, <<x>> points to x.                               *)
(***************************************************************************)
EXTENDS Integers, Sequences, FiniteSets, TLC

-----------------------------------------------------------------------------
(* Bounds of the model.                                                    *)

\* Number of current backups (replica owners) of the partition.
NumBackups == 2
\* Number of previous primary owners still in the owners list.
NumPrev == 1
\* Write timestamps are 1..MaxTs.
MaxTs == 2
\* The clock runs over 0..MaxNow; a TTL is 0 (none) or an instant in 1..MaxNow.
MaxNow == 1
\* Number of GETs the client task issues one after the other.
MaxGets == 2
\* Longest input of the sorting specification.
MaxSortLen == 3
\* Most GET RPCs sent on behalf of one client request.
MaxHops == 3

-----------------------------------------------------------------------------
(* Hosts, records, versions.                                               *)

\* db.this: the node running the GET, current primary owner of the partition.
This == <<"this", 0>>

\* db.getBackupPartitionOwners(hkey): the current backups, in order.
backups == [i \in 1..NumBackups |-> <<"backup", i>>]

\* db.getPartitionOwners(hkey): previous owners in temporal order, then the
\* current primary as last element.
owners == [i \in 1..(NumPrev + 1) |->
             IF i <= NumPrev THEN <<"prev", i>> ELSE This]

Hosts == {owners[i] : i \in 1..Len(owners)} \cup {backups[i] : i \in 1..Len(backups)}

\* The one user key of the model.
TheKey == "k"

\* Value payloads: byte strings.
Values == {<<1>>, <<2>>}

Timestamps == 1..MaxTs

TTLs == 0..MaxNow

\* storage.VData
VData == [Key : {TheKey}, Value : Values, Timestamp : Timestamps, TTL : TTLs]

\* *storage.VData
VDataPtr == {<<>>} \cup {<<d>> : d \in VData}

\* bytes.Compare: lexicographic order of byte strings, -1 / 0 / 1.
RECURSIVE BytesCompare(_, _)
BytesCompare(a, b) ==
  IF a = <<>> /\ b = <<>> THEN 0
  ELSE IF a = <<>> THEN -1
  ELSE IF b = <<>> THEN 1
  ELSE IF Head(a) < Head(b) THEN -1
  ELSE IF Head(a) > Head(b) THEN 1
  ELSE BytesCompare(Tail(a), Tail(b))

\* Variant of VersionLess that puts the smaller value first among equal
\* timestamps.
VersionLess_SmallestFirst(vs, i, j) ==
  IF vs[i].Data[1].Timestamp = vs[j].Data[1].Timestamp
    THEN BytesCompare(vs[i].Data[1].Value, vs[j].Data[1].Value) <= 0
    ELSE vs[i].Data[1].Timestamp > vs[j].Data[1].Timestamp

\* Variant of VersionLess that puts the older timestamp first.
VersionLess_OldestFirst(vs, i, j) ==
  IF vs[i].Data[1].Timestamp = vs[j].Data[1].Timestamp
    THEN BytesCompare(vs[i].Data[1].Value, vs[j].Data[1].Value) >= 0
    ELSE vs[i].Data[1].Timestamp < vs[j].Data[1].Timestamp

\* The less function handed to sort.Slice by sortVersions.
VersionLess(vs, i, j) ==
  IF vs[i].Data[1].Timestamp = vs[j].Data[1].Timestamp
    THEN BytesCompare(vs[i].Data[1].Value, vs[j].Data[1].Value) >= 0
    ELSE vs[i].Data[1].Timestamp > vs[j].Data[1].Timestamp

SwapAt(vs, i, j) == [vs EXCEPT ![i] = vs[j], ![j] = vs[i]]

\* Inner loop of the insertion sort sort.Slice runs on short slices:
\* for j := i; j > a && less(j, j-1); j-- { swap(j, j-1) }
RECURSIVE InsertBack(_, _)
InsertBack(vs, j) ==
  IF j > 1 /\ VersionLess(vs, j, j - 1)
    THEN InsertBack(SwapAt(vs, j, j - 1), j - 1)
    ELSE vs

\* Outer loop: for i := a + 1; i < b; i++
RECURSIVE InsertionSort(_, _)
InsertionSort(vs, i) ==
  IF i > Len(vs) THEN vs ELSE InsertionSort(InsertBack(vs, i), i + 1)

sortVersions(versions) == InsertionSort(versions, 2)

\* The filter loop of sanitizeAndSortVersions: keep versions with Data != nil.
RECURSIVE DropNil(_)
DropNil(versions) ==
  IF versions = <<>> THEN <<>>
  ELSE IF Head(versions).Data # <<>>
    THEN <<Head(versions)>> \o DropNil(Tail(versions))
    ELSE DropNil(Tail(versions))

sanitizeAndSortVersions(versions) ==
  LET sanitized == DropNil(versions)
  IN IF Len(sanitized) <= 1 THEN sanitized ELSE sortVersions(sanitized)


-----------------------------------------------------------------------------
(* Wire format and peer-side handlers.                                     *)

\* The zero value storage.VData{}.
ZeroVData == [Key |-> "", Value |-> <<>>, Timestamp |-> 0, TTL |-> 0]

\* msgpack.Marshal(*vdata): the fields of the record, in order.
Marshal(vdata) == <<vdata.Key, vdata.Value, vdata.Timestamp, vdata.TTL>>

\* msgpack.Unmarshal(payload, dst).  The decoder needs a pointer to store
\* through: handed a struct by value it returns an error and the caller's
\* variable keeps its zero value.
Unmarshal(payload, dstIsPointer) ==
  IF dstIsPointer /\ Len(payload) = 4
    THEN [err |-> FALSE,
          val |-> [Key |-> payload[1], Value |-> payload[2],
                   Timestamp |-> payload[3], TTL |-> payload[4]]]
    ELSE [err |-> TRUE, val |-> ZeroVData]

\* isKeyExpired(ttl) at clock reading t: ttl != 0 and t >= ttl.
isKeyExpired(ttl, t) == ttl # 0 /\ t >= ttl

\* dm.isKeyIdle(hkey): an access-log entry older than MaxIdleDuration
\* (0 disables the policy).  log is the entry as a pointer.
isKeyIdle(log, maxIdle, t) == maxIdle # 0 /\ log # <<>> /\ t >= log[1] + maxIdle

\* A response: req.Success() with a Value, or an error status.
Success(value) == [status |-> "OK", Value |-> value]
ErrorResp(status) == [status |-> status, Value |-> <<>>]

\* getBackupOperation on a backup, reading its backup DMap (stored is the
\* result of dm.storage.Get there) at clock reading t.
getBackupOperation(stored, t) ==
  IF stored = <<>> THEN ErrorResp("ErrKeyNotFound")
  ELSE IF isKeyExpired(stored[1].TTL, t) THEN ErrorResp("ErrKeyNotFound")
  ELSE Success(Marshal(stored[1]))

\* getPrevOperation on a previous owner.
getPrevOperation(stored, t) ==
  IF stored = <<>> THEN ErrorResp("ErrKeyNotFound")
  ELSE IF isKeyExpired(stored[1].TTL, t) THEN ErrorResp("ErrKeyNotFound")
  ELSE Success(Marshal(stored[1]))

\* db.requestTo: (resp, err).  err is set when the transport fails or the
\* peer answers with a status other than OK.
requestTo(reachable, resp) ==
  IF reachable /\ resp.status = "OK"
    THEN [err |-> FALSE, resp |-> resp]
    ELSE [err |-> TRUE, resp |-> ErrorResp("ErrInternal")]

-----------------------------------------------------------------------------
(* State.                                                                  *)

\* The tasks running callGetOnCluster on the partition owner.
Tasks == {"client"}

VARIABLES
  storage,      \* storage[h]: the record of the key held by host h (pointer)
  accessLog,    \* the primary DMap's access-log entry of the key (pointer)
  now,          \* the clock
  rlockers,     \* tasks holding the primary DMap's read lock
  wlocker,      \* task holding the primary DMap's write lock (pointer)
  config,       \* db.config and the constants the read path consults
  pc,           \* pc[t]: position of task t in callGetOnCluster
  versions,     \* versions[t]: the collected versions
  winner,       \* winner[t]: sorted[0] (pointer)
  result,       \* result[t]: what the GET returned (pointer)
  ri,           \* ri[t]: index of readRepair's loop over versions
  gets,         \* gets[t]: number of GETs task t has started
  sent,         \* sent[t]: the repair writes the current GET has issued
  sortIn,       \* input of the sorting specification
  sortOut,      \* its output (pointer)
  ownerOf,      \* ownerOf[n]: the member findPartitionOwner yields on node n
  route         \* the client request: the nodes db.get runs on, innermost
                \* last; the GET RPCs sent for it; the reply on its way back

clusterVars == <<storage, accessLog, now, rlockers, wlocker, config>>
taskVars == <<pc, versions, winner, result, ri, gets, sent>>
sortVars == <<sortIn, sortOut>>
routeVars == <<ownerOf, route>>
vars == <<storage, accessLog, now, rlockers, wlocker, config,
          pc, versions, winner, result, ri, gets, sent, sortIn, sortOut,
          ownerOf, route>>

\* Configurations: ReadQuorum, ReadRepair, MaxIdleDuration and the package
\* constant config.MinimumReplicaCount.  A MinimumReplicaCount of 2 differs
\* from 1 only when ReadQuorum is 1.
Configs ==
  {c \in [ReadQuorum : 1..(NumBackups + 2), ReadRepair : BOOLEAN,
          MaxIdleDuration : 0..MaxNow, MinimumReplicaCount : 1..2] :
     c.MinimumReplicaCount = 1 \/ c.ReadQuorum = 1}

\* A record a previous owner may still hold: the newest write, or nothing.
PrevVData == {d \in VData : d.Timestamp = MaxTs /\ d.TTL = 0 /\ d.Value = <<2>>}

InitStorages ==
  {s \in [Hosts -> VDataPtr] :
     \A i \in 1..NumPrev :
       s[owners[i]] = <<>> \/ s[owners[i]][1] \in PrevVData}

InitCluster ==
  /\ storage \in InitStorages
  /\ accessLog = <<>>
  /\ now = 0
  /\ rlockers = {}
  /\ wlocker = <<>>
  /\ config \in Configs

InitTasks ==
  /\ pc = [t \in Tasks |-> "idle"]
  /\ versions = [t \in Tasks |-> <<>>]
  /\ winner = [t \in Tasks |-> <<>>]
  /\ result = [t \in Tasks |-> <<>>]
  /\ ri = [t \in Tasks |-> 0]
  /\ gets = [t \in Tasks |-> 0]
  /\ sent = [t \in Tasks |-> <<>>]

\* The request is on the partition owner, and every node knows the owner.
InitRoute ==
  /\ ownerOf = [n \in Hosts |-> This]
  /\ route = [calls |-> <<This>>, hops |-> 0, reply |-> <<>>]

Init ==
  /\ InitCluster
  /\ InitTasks
  /\ InitRoute
  /\ sortIn = <<>>
  /\ sortOut = <<>>

-----------------------------------------------------------------------------
(* Version collection.                                                     *)

\* A version: host is what *ver.host yields when read-repair reads it,
\* origin is the host the Data was read from.
Version(host, origin, data) == [host |-> host, origin |-> origin, Data |-> data]

\* The loop of lookupOnOwners over the previous owners, from index
\* len(owners)-2 down to 0 (here i = NumPrev down to 1); up is the set of
\* indices whose GET-PREV is not hit by a transport error.  The payload is
\* decoded into the struct data passed by value.
RECURSIVE PrevOwnerVersions(_, _, _, _)
PrevOwnerVersions(i, up, st, t) ==
  IF i < 1 THEN <<>>
  ELSE LET owner == owners[i]
           r == requestTo(i \in up, getPrevOperation(st[owner], t))
           dec == Unmarshal(r.resp.Value, FALSE)
           here == IF r.err \/ dec.err
                     THEN <<>>
                     ELSE <<Version(owner, owner, <<dec.val>>)>>
       IN here \o PrevOwnerVersions(i - 1, up, st, t)

\* lookupOnOwners: the local version, always; then the previous owners.
lookupOnOwners(up, st, t) ==
  <<Version(This, This, st[This])>> \o PrevOwnerVersions(NumPrev, up, st, t)

\* The loop of lookupOnReplicas.  Every version stores &replica, the address
\* of the one range variable of the loop, which holds the last backup once
\* the loop is over: that is the host read-repair later sees.
RECURSIVE ReplicaVersions(_, _, _, _)
ReplicaVersions(i, up, st, t) ==
  IF i > Len(backups) THEN <<>>
  ELSE LET replica == backups[i]
           r == requestTo(i \in up, getBackupOperation(st[replica], t))
           dec == Unmarshal(r.resp.Value, TRUE)
           data == IF r.err \/ dec.err THEN <<>> ELSE <<dec.val>>
       IN <<Version(backups[Len(backups)], replica, data)>>
            \o ReplicaVersions(i + 1, up, st, t)

\* Variant of the loop of lookupOnReplicas that appends a version only when
\* the backup delivered a record, as lookupOnOwners does.
RECURSIVE ReplicaVersions_OmitFailed(_, _, _, _)
ReplicaVersions_OmitFailed(i, up, st, t) ==
  IF i > Len(backups) THEN <<>>
  ELSE LET replica == backups[i]
           r == requestTo(i \in up, getBackupOperation(st[replica], t))
           dec == Unmarshal(r.resp.Value, TRUE)
           here == IF r.err \/ dec.err
                     THEN <<>>
                     ELSE <<Version(backups[Len(backups)], replica, <<dec.val>>)>>
       IN here \o ReplicaVersions_OmitFailed(i + 1, up, st, t)

lookupOnReplicas_OmitFailed(up, st, t) == ReplicaVersions_OmitFailed(1, up, st, t)

lookupOnReplicas(up, st, t) == ReplicaVersions(1, up, st, t)

-----------------------------------------------------------------------------
(* callGetOnCluster, step by step.  A step ends where the task may block    *)
(* (a lock, the RPCs of a lookup, a repair write) or reads the clock.      *)

Ok(value) == [Value |-> value, Err |-> "nil"]
Fail(err) == [Value |-> <<>>, Err |-> err]

\* The node db.get is running on: the innermost call of the request.
Here == route.calls[Len(route.calls)]

\* The test of line 266 on node Here: hostCmp(member, db.this).
isOwner == ownerOf[Here] = Here

\* get -> callGetOnCluster, lines 264-267 and 211-215: the node is the
\* partition owner; db.getDMap may fail.
Begin(t) ==
  /\ route.calls # <<>>
  /\ route.reply = <<>>
  /\ Here = This
  /\ isOwner
  /\ pc[t] \in {"idle", "done"}
  /\ gets[t] < MaxGets
  /\ gets' = [gets EXCEPT ![t] = @ + 1]
  /\ versions' = [versions EXCEPT ![t] = <<>>]
  /\ winner' = [winner EXCEPT ![t] = <<>>]
  /\ sent' = [sent EXCEPT ![t] = <<>>]
  /\ ri' = [ri EXCEPT ![t] = 0]
  /\ \E dmapOk \in BOOLEAN :
       IF dmapOk
         THEN /\ pc' = [pc EXCEPT ![t] = "rlock"]
              /\ result' = [result EXCEPT ![t] = <<>>]
         ELSE /\ pc' = [pc EXCEPT ![t] = "done"]
              /\ result' = [result EXCEPT ![t] = <<Fail("ErrInternal")>>]
  /\ UNCHANGED <<clusterVars, sortVars, routeVars>>

\* dm.RLock(), line 216.
RLock(t) ==
  /\ pc[t] = "rlock"
  /\ wlocker = <<>>
  /\ rlockers' = rlockers \cup {t}
  /\ pc' = [pc EXCEPT ![t] = "owners"]
  /\ UNCHANGED <<storage, accessLog, now, wlocker, config,
                 versions, winner, result, ri, gets, sent, sortVars, routeVars>>

\* A reading of the clock: time has moved on by any amount since the last one.
ClockRead(n) == n \in now..MaxNow /\ now' = n

\* Line 221, and the test of line 222.  The previous owners read their
\* clocks while they serve GET-PREV.
LookupOnOwners(t) ==
  /\ pc[t] = "owners"
  /\ \E up \in SUBSET (1..NumPrev), n \in 0..MaxNow :
       /\ ClockRead(n)
       /\ versions' = [versions EXCEPT ![t] = lookupOnOwners(up, storage, n)]
  /\ pc' = [pc EXCEPT ![t] =
              IF config.ReadQuorum >= config.MinimumReplicaCount
                THEN "replicas" ELSE "reconcile"]
  /\ UNCHANGED <<storage, accessLog, rlockers, wlocker, config,
                 winner, result, ri, gets, sent, sortVars, routeVars>>

\* Lines 223-224.  The backups read their clocks while they serve GET-BACKUP.
LookupOnReplicas(t) ==
  /\ pc[t] = "replicas"
  /\ \E up \in SUBSET (1..NumBackups), n \in 0..MaxNow :
       /\ ClockRead(n)
       /\ versions' = [versions EXCEPT ![t] = @ \o lookupOnReplicas(up, storage, n)]
  /\ pc' = [pc EXCEPT ![t] = "reconcile"]
  /\ UNCHANGED <<storage, accessLog, rlockers, wlocker, config,
                 winner, result, ri, gets, sent, sortVars, routeVars>>

\* Variant of reconcile without the test of line 226.
reconcile_NoGate(vs, readQuorum) ==
  LET sorted == sanitizeAndSortVersions(vs)
  IN IF Len(sorted) = 0 THEN [err |-> "ErrKeyNotFound", winner |-> <<>>]
     ELSE IF Len(sorted) < readQuorum THEN [err |-> "ErrReadQuorum", winner |-> <<>>]
     ELSE [err |-> "nil", winner |-> <<sorted[1]>>]

\* Variant of reconcile with the tests of lines 231 and 236 exchanged.
reconcile_ShortfallFirst(vs, readQuorum) ==
  LET sorted == sanitizeAndSortVersions(vs)
  IN IF Len(vs) < readQuorum THEN [err |-> "ErrReadQuorum", winner |-> <<>>]
     ELSE IF Len(sorted) < readQuorum THEN [err |-> "ErrReadQuorum", winner |-> <<>>]
     ELSE IF Len(sorted) = 0 THEN [err |-> "ErrKeyNotFound", winner |-> <<>>]
     ELSE [err |-> "nil", winner |-> <<sorted[1]>>]

\* Variant of reconcile without the test of line 236.
reconcile_NoDataQuorum(vs, readQuorum) ==
  LET sorted == sanitizeAndSortVersions(vs)
  IN IF Len(vs) < readQuorum THEN [err |-> "ErrReadQuorum", winner |-> <<>>]
     ELSE IF Len(sorted) = 0 THEN [err |-> "ErrKeyNotFound", winner |-> <<>>]
     ELSE [err |-> "nil", winner |-> <<sorted[1]>>]

\* Lines 226-242 as a function of the collected versions: the error to
\* return, or the winner.
reconcile(vs, readQuorum) ==
  LET sorted == sanitizeAndSortVersions(vs)
  IN IF Len(vs) < readQuorum THEN [err |-> "ErrReadQuorum", winner |-> <<>>]
     ELSE IF Len(sorted) = 0 THEN [err |-> "ErrKeyNotFound", winner |-> <<>>]
     ELSE IF Len(sorted) < readQuorum THEN [err |-> "ErrReadQuorum", winner |-> <<>>]
     ELSE [err |-> "nil", winner |-> <<sorted[1]>>]

\* Variant of Reconcile that returns ErrKeyNotFound at line 234 without the
\* RUnlock of line 233.
Reconcile_KeepLock(t) ==
  /\ pc[t] = "reconcile"
  /\ LET r == reconcile(versions[t], config.ReadQuorum)
     IN IF r.err # "nil"
          THEN /\ rlockers' = IF r.err = "ErrKeyNotFound" THEN rlockers
                                                          ELSE rlockers \ {t}
               /\ result' = [result EXCEPT ![t] = <<Fail(r.err)>>]
               /\ pc' = [pc EXCEPT ![t] = "done"]
               /\ UNCHANGED winner
          ELSE /\ winner' = [winner EXCEPT ![t] = r.winner]
               /\ pc' = [pc EXCEPT ![t] = "gate"]
               /\ UNCHANGED <<rlockers, result>>
  /\ UNCHANGED <<storage, accessLog, now, wlocker, config,
                 versions, ri, gets, sent, sortVars, routeVars>>

\* Lines 226-242: on an error the read lock is released and the GET returns.
Reconcile(t) ==
  /\ pc[t] = "reconcile"
  /\ LET r == reconcile(versions[t], config.ReadQuorum)
     IN IF r.err # "nil"
          THEN /\ rlockers' = rlockers \ {t}
               /\ result' = [result EXCEPT ![t] = <<Fail(r.err)>>]
               /\ pc' = [pc EXCEPT ![t] = "done"]
               /\ UNCHANGED winner
          ELSE /\ winner' = [winner EXCEPT ![t] = r.winner]
               /\ pc' = [pc EXCEPT ![t] = "gate"]
               /\ UNCHANGED <<rlockers, result>>
  /\ UNCHANGED <<storage, accessLog, now, wlocker, config,
                 versions, ri, gets, sent, sortVars, routeVars>>

\* Variant of winnerIsDead that leaves out the expiry test.
winnerIsDead_IdleOnly(w, log, maxIdle, t) == isKeyIdle(log, maxIdle, t)

\* The test of line 243.
winnerIsDead(w, log, maxIdle, t) ==
  isKeyExpired(w.Data[1].TTL, t) \/ isKeyIdle(log, maxIdle, t)

\* Variant of Gate that refreshes the access log before it tests the winner.
Gate_EagerLog(t) ==
  /\ pc[t] = "gate"
  /\ \E n \in 0..MaxNow :
       /\ ClockRead(n)
       /\ accessLog' = <<n>>
       /\ IF winnerIsDead(winner[t][1], accessLog, config.MaxIdleDuration, n)
            THEN /\ rlockers' = rlockers \ {t}
                 /\ result' = [result EXCEPT ![t] = <<Fail("ErrKeyNotFound")>>]
                 /\ pc' = [pc EXCEPT ![t] = "done"]
            ELSE /\ pc' = [pc EXCEPT ![t] = "log"]
                 /\ UNCHANGED <<rlockers, result>>
  /\ UNCHANGED <<storage, wlocker, config,
                 versions, winner, ri, gets, sent, sortVars, routeVars>>

\* Lines 243-246: a dead winner ends the GET; a live one goes on to
\* dm.updateAccessLog with the read lock still held.
Gate(t) ==
  /\ pc[t] = "gate"
  /\ \E n \in 0..MaxNow :
       /\ ClockRead(n)
       /\ IF winnerIsDead(winner[t][1], accessLog, config.MaxIdleDuration, n)
            THEN /\ rlockers' = rlockers \ {t}
                 /\ result' = [result EXCEPT ![t] = <<Fail("ErrKeyNotFound")>>]
                 /\ pc' = [pc EXCEPT ![t] = "done"]
            ELSE /\ pc' = [pc EXCEPT ![t] = "log"]
                 /\ UNCHANGED <<rlockers, result>>
  /\ UNCHANGED <<storage, accessLog, wlocker, config,
                 versions, winner, ri, gets, sent, sortVars, routeVars>>

\* Line 252, dm.updateAccessLog(hkey): the entry of the key becomes the
\* clock's reading.  A task is inside the update from the step that passes
\* the gate until this one.
UpdateAccessLog(t) ==
  /\ pc[t] = "log"
  /\ \E n \in 0..MaxNow :
       /\ ClockRead(n)
       /\ accessLog' = <<n>>
  /\ pc' = [pc EXCEPT ![t] = "runlock"]
  /\ UNCHANGED <<storage, rlockers, wlocker, config,
                 versions, winner, result, ri, gets, sent, sortVars, routeVars>>

\* Variant of RUnlock that leaves the release to the function's exit, as a
\* deferred RUnlock would.
RUnlock_Deferred(t) ==
  /\ pc[t] = "runlock"
  /\ IF config.ReadRepair
       THEN /\ pc' = [pc EXCEPT ![t] = "repair"]
            /\ ri' = [ri EXCEPT ![t] = 1]
            /\ UNCHANGED <<result, rlockers>>
       ELSE /\ pc' = [pc EXCEPT ![t] = "done"]
            /\ result' = [result EXCEPT ![t] = <<Ok(winner[t][1].Data[1].Value)>>]
            /\ rlockers' = rlockers \ {t}
            /\ UNCHANGED ri
  /\ UNCHANGED <<storage, accessLog, now, wlocker, config,
                 versions, winner, gets, sent, sortVars, routeVars>>

\* Variant of RUnlock that goes on to read-repair whatever db.config.ReadRepair.
RUnlock_AlwaysRepair(t) ==
  /\ pc[t] = "runlock"
  /\ rlockers' = rlockers \ {t}
  /\ pc' = [pc EXCEPT ![t] = "repair"]
  /\ ri' = [ri EXCEPT ![t] = 1]
  /\ UNCHANGED <<storage, accessLog, now, wlocker, config,
                 versions, winner, result, gets, sent, sortVars, routeVars>>

\* Lines 254-255 (and 260 when read-repair is off).
RUnlock(t) ==
  /\ pc[t] = "runlock"
  /\ rlockers' = rlockers \ {t}
  /\ IF config.ReadRepair
       THEN /\ pc' = [pc EXCEPT ![t] = "repair"]
            /\ ri' = [ri EXCEPT ![t] = 1]
            /\ UNCHANGED result
       ELSE /\ pc' = [pc EXCEPT ![t] = "done"]
            /\ result' = [result EXCEPT ![t] = <<Ok(winner[t][1].Data[1].Value)>>]
            /\ UNCHANGED ri
  /\ UNCHANGED <<storage, accessLog, now, wlocker, config,
                 versions, winner, gets, sent, sortVars, routeVars>>

-----------------------------------------------------------------------------
(* readRepair.                                                             *)

\* Variant of alreadyCurrent that skips the winner itself only.
alreadyCurrent_WinnerOnly(ver, w) == ver = w

\* Line 164: the version already carries the winner's timestamp.
alreadyCurrent(ver, w) ==
  ver.Data # <<>> /\ w.Data[1].Timestamp = ver.Data[1].Timestamp

\* Variant of repairOp that sends PUT-REPLICA whatever the winner's ttl.
repairOp_AlwaysPut(w) == "PutReplica"

\* Lines 174-184: the opcode of a remote repair.
repairOp(w) == IF w.Data[1].TTL = 0 THEN "PutReplica" ELSE "PutExReplica"

\* Variant of repairWrite that stamps the write at repair time, with the
\* newest timestamp there is, and not with the winner's.
repairWrite_Restamped(w) ==
  [Key |-> w.Data[1].Key, Value |-> w.Data[1].Value,
   Timestamp |-> MaxTs, TTL |-> w.Data[1].TTL]

\* Lines 169-195: what a repair write carries, all of it from the winner.
repairWrite(w) ==
  [Key |-> w.Data[1].Key, Value |-> w.Data[1].Value,
   Timestamp |-> w.Data[1].Timestamp, TTL |-> w.Data[1].TTL]

\* The replica write path of a peer (PUT-REPLICA / PUT-EX-REPLICA): a write
\* whose timestamp is not strictly greater than the stored record's is
\* rejected.  Whether the peer reports a rejected write as an error or
\* drops it and answers OK is left open, so the sender may see either.
replicaAccepts(stored, w) == stored = <<>> \/ w.Timestamp > stored[1].Timestamp

putReplica(stored, w) == IF replicaAccepts(stored, w) THEN <<w>> ELSE stored

\* db.localPut: the local write path keeps timestamps monotonic.
localAccepts(stored, w) == stored = <<>> \/ w.Timestamp >= stored[1].Timestamp

localPut(stored, w) == IF localAccepts(stored, w) THEN <<w>> ELSE stored

\* A repair write as observed on the wire or at the local write path.
Sent(ver, op, w, outcome) ==
  [to |-> ver.host, origin |-> ver.origin, op |-> op, write |-> w,
   outcome |-> outcome]

\* The loop of lines 163-166 from index i on: the index of the first version
\* that is not skipped, Len(vs) + 1 when there is none.
RECURSIVE nextToRepair(_, _, _)
nextToRepair(vs, w, i) ==
  IF i > Len(vs) THEN i
  ELSE IF alreadyCurrent(vs[i], w) THEN nextToRepair(vs, w, i + 1)
  ELSE i

\* The loop of lines 163-208 up to its next blocking point: skip the current
\* versions, then either return the winner's value (line 260), go for the
\* write lock (line 196) or send the remote write (lines 203-206).
RepairNext(t) ==
  /\ pc[t] = "repair"
  /\ LET j == nextToRepair(versions[t], winner[t][1], ri[t])
     IN IF j > Len(versions[t])
       THEN /\ pc' = [pc EXCEPT ![t] = "done"]
            /\ result' = [result EXCEPT ![t] = <<Ok(winner[t][1].Data[1].Value)>>]
            /\ ri' = [ri EXCEPT ![t] = j]
            /\ UNCHANGED <<storage, sent>>
       ELSE LET ver == versions[t][j]
                w == repairWrite(winner[t][1])
            IN IF ver.host = This
                   THEN /\ pc' = [pc EXCEPT ![t] = "repairLock"]
                        /\ ri' = [ri EXCEPT ![t] = j]
                        /\ UNCHANGED <<storage, result, sent>>
                   ELSE /\ \E reachable \in BOOLEAN, quiet \in BOOLEAN :
                             LET after == IF reachable
                                            THEN putReplica(storage[ver.host], w)
                                            ELSE storage[ver.host]
                                 outcome == IF ~reachable THEN "error"
                                            ELSE IF replicaAccepts(storage[ver.host], w)
                                              THEN "applied"
                                            ELSE IF quiet THEN "rejected"
                                            ELSE "error"
                             IN /\ storage' = [storage EXCEPT ![ver.host] = after]
                                /\ sent' = [sent EXCEPT ![t] =
                                     Append(@, Sent(ver, repairOp(winner[t][1]), w, outcome))]
                        /\ ri' = [ri EXCEPT ![t] = j + 1]
                        /\ UNCHANGED <<pc, result>>
  /\ UNCHANGED <<accessLog, now, rlockers, wlocker, config,
                 versions, winner, gets, sortVars, routeVars>>

\* dm.Lock(), line 196.
RepairLock(t) ==
  /\ pc[t] = "repairLock"
  /\ rlockers = {}
  /\ wlocker = <<>>
  /\ wlocker' = <<t>>
  /\ pc' = [pc EXCEPT ![t] = "repairPut"]
  /\ UNCHANGED <<storage, accessLog, now, rlockers, config,
                 versions, winner, result, ri, gets, sent, sortVars, routeVars>>

\* Variant of RepairPut that returns the error of db.localPut to the client.
RepairPut_FailFast(t) ==
  /\ pc[t] = "repairPut"
  /\ LET ver == versions[t][ri[t]]
         w == repairWrite(winner[t][1])
     IN \E putOk \in BOOLEAN :
          LET after == IF putOk THEN localPut(storage[This], w) ELSE storage[This]
              outcome == IF ~putOk THEN "error"
                         ELSE IF localAccepts(storage[This], w) THEN "applied"
                         ELSE "rejected"
          IN /\ storage' = [storage EXCEPT ![This] = after]
             /\ sent' = [sent EXCEPT ![t] = Append(@, Sent(ver, "local", w, outcome))]
             /\ IF putOk
                  THEN /\ pc' = [pc EXCEPT ![t] = "repair"]
                       /\ UNCHANGED result
                  ELSE /\ pc' = [pc EXCEPT ![t] = "done"]
                       /\ result' = [result EXCEPT ![t] = <<Fail("ErrInternal")>>]
  /\ wlocker' = <<>>
  /\ ri' = [ri EXCEPT ![t] = @ + 1]
  /\ UNCHANGED <<accessLog, now, rlockers, config,
                 versions, winner, gets, sortVars, routeVars>>

\* Lines 197-201: db.localPut, its error logged, then dm.Unlock().
RepairPut(t) ==
  /\ pc[t] = "repairPut"
  /\ LET ver == versions[t][ri[t]]
         w == repairWrite(winner[t][1])
     IN \E putOk \in BOOLEAN :
          LET after == IF putOk THEN localPut(storage[This], w) ELSE storage[This]
              outcome == IF ~putOk THEN "error"
                         ELSE IF localAccepts(storage[This], w) THEN "applied"
                         ELSE "rejected"
          IN /\ storage' = [storage EXCEPT ![This] = after]
             /\ sent' = [sent EXCEPT ![t] = Append(@, Sent(ver, "local", w, outcome))]
  /\ wlocker' = <<>>
  /\ ri' = [ri EXCEPT ![t] = @ + 1]
  /\ pc' = [pc EXCEPT ![t] = "repair"]
  /\ UNCHANGED <<accessLog, now, rlockers, config,
                 versions, winner, result, gets, sortVars, routeVars>>

Next ==
  \/ \E t \in Tasks : Begin(t)
  \/ \E t \in Tasks : RLock(t)
  \/ \E t \in Tasks : LookupOnOwners(t)
  \/ \E t \in Tasks : LookupOnReplicas(t)
  \/ \E t \in Tasks : Reconcile(t)
  \/ \E t \in Tasks : Gate(t)
  \/ \E t \in Tasks : UpdateAccessLog(t)
  \/ \E t \in Tasks : RUnlock(t)
  \/ \E t \in Tasks : RepairNext(t)
  \/ \E t \in Tasks : RepairLock(t)
  \/ \E t \in Tasks : RepairPut(t)

Spec == Init /\ [][Next]_vars

-----------------------------------------------------------------------------
(* The sorting specification: sanitizeAndSortVersions applied to every     *)
(* short sequence of versions.                                             *)

SortValues == {<<>>, <<1>>, <<1, 2>>, <<2>>}

SortVersions ==
  {Version(This, This, d) :
     d \in {<<>>} \cup {<<[Key |-> TheKey, Value |-> v, Timestamp |-> ts, TTL |-> 0]>> :
                          v \in SortValues, ts \in Timestamps}}

SortInputs == UNION {[1..n -> SortVersions] : n \in 0..MaxSortLen}

SortInit ==
  /\ storage = [h \in Hosts |-> <<>>]
  /\ accessLog = <<>>
  /\ now = 0
  /\ rlockers = {}
  /\ wlocker = <<>>
  /\ config = [ReadQuorum |-> 1, ReadRepair |-> FALSE, MaxIdleDuration |-> 0,
               MinimumReplicaCount |-> 1]
  /\ InitTasks
  /\ InitRoute
  /\ sortIn \in SortInputs
  /\ sortOut = <<>>

Sort ==
  /\ sortOut = <<>>
  /\ sortOut' = <<sanitizeAndSortVersions(sortIn)>>
  /\ UNCHANGED <<clusterVars, taskVars, sortIn, routeVars>>

SortNext == Sort

SortSpec == SortInit /\ [][SortNext]_vars

-----------------------------------------------------------------------------
(* The routing specification: one client request, which may start on any   *)
(* node, under routing tables that need not agree.  The model holds the    *)
(* reconciliation pipeline of one node, This; the other nodes never take   *)
(* themselves for the owner.                                               *)

RouteTables ==
  {o \in [Hosts -> Hosts] : \A n \in Hosts \ {This} : o[n] # n}

\* ReadQuorum 1 with read-repair on, no idleness policy.
RouteConfigs ==
  {c \in Configs : /\ c.ReadQuorum = 1 /\ c.ReadRepair
                   /\ c.MaxIdleDuration = 0 /\ c.MinimumReplicaCount = 1}

\* Every host holds the newest write or nothing.
RouteStorages ==
  {s \in InitStorages : \A h \in Hosts : s[h] = <<>> \/ s[h][1] \in PrevVData}

\* The request has not started; the task has come to its last GET.
RouteInit ==
  /\ storage \in RouteStorages
  /\ accessLog = <<>>
  /\ now = 0
  /\ rlockers = {}
  /\ wlocker = <<>>
  /\ config \in RouteConfigs
  /\ pc = [t \in Tasks |-> "idle"]
  /\ versions = [t \in Tasks |-> <<>>]
  /\ winner = [t \in Tasks |-> <<>>]
  /\ result = [t \in Tasks |-> <<>>]
  /\ ri = [t \in Tasks |-> 0]
  /\ gets = [t \in Tasks |-> MaxGets - 1]
  /\ sent = [t \in Tasks |-> <<>>]
  /\ ownerOf \in RouteTables
  /\ route = [calls |-> <<>>, hops |-> 0, reply |-> <<>>]
  /\ sortIn = <<>>
  /\ sortOut = <<>>

\* DMap.Get on node n, lines 285-286: db.get starts there.
Get(n) ==
  /\ route.calls = <<>>
  /\ route.reply = <<>>
  /\ route.hops = 0
  /\ route' = [route EXCEPT !.calls = <<n>>]
  /\ UNCHANGED <<clusterVars, taskVars, sortVars, ownerOf>>

\* Lines 269-277 on node Here, which is not the owner by its own table: the
\* GET RPC to the member it takes for the owner.  When the RPC is delivered,
\* exGetOperation there calls db.get (line 294), which consults that node's
\* own table; when it is not, db.get returns the error (line 276).
Forward ==
  /\ route.calls # <<>>
  /\ route.reply = <<>>
  /\ ~isOwner
  /\ route.hops < MaxHops
  /\ \E reachable \in BOOLEAN :
       IF reachable
         THEN route' = [route EXCEPT !.calls = Append(@, ownerOf[Here]),
                                     !.hops = @ + 1]
         ELSE route' = [route EXCEPT !.reply = <<Fail("ErrTransport")>>,
                                     !.hops = @ + 1]
  /\ UNCHANGED <<clusterVars, taskVars, sortVars, ownerOf>>

\* Line 267: callGetOnCluster has returned on the owner; what it returned
\* is what db.get returns.
Reply(t) ==
  /\ route.calls # <<>>
  /\ route.reply = <<>>
  /\ Here = This
  /\ isOwner
  /\ pc[t] = "done"
  /\ route' = [route EXCEPT !.reply = result[t]]
  /\ UNCHANGED <<clusterVars, taskVars, sortVars, ownerOf>>

\* db.get returns on node Here: to exGetOperation, which answers the RPC
\* with the value or the error (lines 294-300), and so to the caller's
\* db.get, which returns the same (lines 274-278); or, on the first node,
\* to the client.
Return ==
  /\ route.calls # <<>>
  /\ route.reply # <<>>
  /\ route' = [route EXCEPT !.calls = SubSeq(@, 1, Len(@) - 1)]
  /\ UNCHANGED <<clusterVars, taskVars, sortVars, ownerOf>>

RouteNext ==
  \/ \E n \in Hosts : Get(n)
  \/ Forward
  \/ \E t \in Tasks : Reply(t)
  \/ Return
  \/ \E t \in Tasks : Begin(t)
  \/ \E t \in Tasks : RLock(t)
  \/ \E t \in Tasks : LookupOnOwners(t)
  \/ \E t \in Tasks : LookupOnReplicas(t)
  \/ \E t \in Tasks : Reconcile(t)
  \/ \E t \in Tasks : Gate(t)
  \/ \E t \in Tasks : UpdateAccessLog(t)
  \/ \E t \in Tasks : RUnlock(t)
  \/ \E t \in Tasks : RepairNext(t)
  \/ \E t \in Tasks : RepairLock(t)
  \/ \E t \in Tasks : RepairPut(t)

RouteSpec == RouteInit /\ [][RouteNext]_vars

-----------------------------------------------------------------------------
(* The concurrent specification: two GETs of the key on the partition      *)
(* owner, the client's and one served for a peer (exGetOperation), next    *)
(* to a writer of the key.  getBackupOperation holds the backup DMap's     *)
(* read lock from line 309 to its return (the deferred RUnlock of line     *)
(* 310) and calls nothing that blocks in between, so a GET-BACKUP handler  *)
(* stays one step, inside LookupOnReplicas.                                *)

\* The tasks running callGetOnCluster at the same time.
ConcTasks == {"client", "peer"}

\* The tasks running the write path on the partition owner.
Writers == {"writer"}

\* The write path on the owner asks for the DMap's write lock.
WriteBegin(w) ==
  /\ pc[w] = "idle"
  /\ gets[w] < MaxGets
  /\ gets' = [gets EXCEPT ![w] = @ + 1]
  /\ pc' = [pc EXCEPT ![w] = "wlock"]
  /\ UNCHANGED <<clusterVars, versions, winner, result, ri, sent,
                 sortVars, routeVars>>

\* dm.Lock() of the write path.
WriteLock(w) ==
  /\ pc[w] = "wlock"
  /\ rlockers = {}
  /\ wlocker = <<>>
  /\ wlocker' = <<w>>
  /\ pc' = [pc EXCEPT ![w] = "wput"]
  /\ UNCHANGED <<storage, accessLog, now, rlockers, config,
                 versions, winner, result, ri, gets, sent, sortVars, routeVars>>

\* The write under the lock: the newest write of the key goes to the local
\* storage and, as a replica write, to the backups it reaches; dm.Unlock().
WritePut(w) ==
  /\ pc[w] = "wput"
  /\ \E d \in PrevVData, up \in SUBSET (1..NumBackups) :
       storage' = [h \in Hosts |->
                     IF h = This THEN localPut(storage[h], d)
                     ELSE IF \E i \in up : backups[i] = h
                       THEN putReplica(storage[h], d)
                     ELSE storage[h]]
  /\ wlocker' = <<>>
  /\ pc' = [pc EXCEPT ![w] = "idle"]
  /\ UNCHANGED <<accessLog, now, rlockers, config,
                 versions, winner, result, ri, gets, sent, sortVars, routeVars>>

\* ReadQuorum 1 or 2 with read-repair on, no idleness policy.
ConcConfigs ==
  {c \in Configs : /\ c.ReadQuorum <= 2 /\ c.ReadRepair
                   /\ c.MaxIdleDuration = 0 /\ c.MinimumReplicaCount = 1}

\* A record of the oldest write.
OldVData == {d \in VData : d.Timestamp = 1 /\ d.TTL = 0 /\ d.Value = <<1>>}

\* The owner and the backups hold the oldest write or nothing, the previous
\* owners nothing.
ConcStorages ==
  {s \in InitStorages :
     /\ \A h \in Hosts : s[h] = <<>> \/ s[h][1] \in OldVData
     /\ \A i \in 1..NumPrev : s[owners[i]] = <<>>}

\* Every task has one operation left; the clock shows clock and the hosts
\* hold one of stores.
ConcStart(clock, stores) ==
  /\ storage \in stores
  /\ accessLog = <<>>
  /\ now = clock
  /\ rlockers = {}
  /\ wlocker = <<>>
  /\ config \in ConcConfigs
  /\ pc = [t \in ConcTasks \cup Writers |-> "idle"]
  /\ versions = [t \in ConcTasks \cup Writers |-> <<>>]
  /\ winner = [t \in ConcTasks \cup Writers |-> <<>>]
  /\ result = [t \in ConcTasks \cup Writers |-> <<>>]
  /\ ri = [t \in ConcTasks \cup Writers |-> 0]
  /\ gets = [t \in ConcTasks \cup Writers |-> MaxGets - 1]
  /\ sent = [t \in ConcTasks \cup Writers |-> <<>>]
  /\ InitRoute
  /\ sortIn = <<>>
  /\ sortOut = <<>>

ConcInit == ConcStart(0, ConcStorages)

\* The steps of a GET after its start.
Step(t) ==
  \/ RLock(t)
  \/ LookupOnOwners(t)
  \/ LookupOnReplicas(t)
  \/ Reconcile(t)
  \/ Gate(t)
  \/ UpdateAccessLog(t)
  \/ RUnlock(t)
  \/ RepairNext(t)
  \/ RepairLock(t)
  \/ RepairPut(t)

ConcNext ==
  \/ \E t \in ConcTasks : Begin(t)
  \/ \E t \in ConcTasks : RLock(t)
  \/ \E t \in ConcTasks : LookupOnOwners(t)
  \/ \E t \in ConcTasks : LookupOnReplicas(t)
  \/ \E t \in ConcTasks : Reconcile(t)
  \/ \E t \in ConcTasks : Gate(t)
  \/ \E t \in ConcTasks : UpdateAccessLog(t)
  \/ \E t \in ConcTasks : RUnlock(t)
  \/ \E t \in ConcTasks : RepairNext(t)
  \/ \E t \in ConcTasks : RepairLock(t)
  \/ \E t \in ConcTasks : RepairPut(t)
  \/ \E w \in Writers : WriteBegin(w)
  \/ \E w \in Writers : WriteLock(w)
  \/ \E w \in Writers : WritePut(w)

ConcSpec == ConcInit /\ [][ConcNext]_vars

\* Every RPC returns, no task stops in the middle of an operation, and a
\* lock that stays free is granted to a task that waits for it: weak
\* fairness of the steps of each task, which is less than the fair lock
\* the Go runtime provides.  Whether an operation starts is left open.
Fairness ==
  /\ \A t \in ConcTasks : WF_vars(Step(t))
  /\ \A w \in Writers : WF_vars(WriteLock(w) \/ WritePut(w))

\* The concurrent tasks late in the day: the clock has reached MaxNow.
\* As ConcStorages, and the owner's record may carry a TTL that has run out
\* when the clock shows MaxNow.
LiveStorages ==
  {s \in InitStorages :
     /\ \A h \in Hosts :
          s[h] = <<>> \/ (s[h][1].Timestamp = 1 /\ s[h][1].Value = <<1>>)
     /\ \A h \in Hosts \ {This} : s[h] = <<>> \/ s[h][1].TTL = 0
     /\ s[This] = <<>> \/ s[This][1].TTL \in {0, MaxNow}
     /\ \A i \in 1..NumPrev : s[owners[i]] = <<>>}

LiveInit == ConcStart(MaxNow, LiveStorages)

LiveSpec == LiveInit /\ [][ConcNext]_vars /\ Fairness

-----------------------------------------------------------------------------
(* Vocabulary of the properties.                                           *)

\* Task t has returned from a GET that went through version collection
\* (the local version is always collected).
Returned(t) == pc[t] = "done" /\ versions[t] # <<>>

\* The indices of the collected versions that carry data.
WithData(vs) == {i \in 1..Len(vs) : vs[i].Data # <<>>}

\* a <= b in the lexicographic order of byte strings.
LexLeq(a, b) ==
  \/ Len(a) <= Len(b) /\ \A k \in 1..Len(a) : a[k] = b[k]
  \/ \E k \in 1..Len(a) :
       /\ k <= Len(b)
       /\ a[k] < b[k]
       /\ \A j \in 1..(k - 1) : a[j] = b[j]

\* Version w is maximal among the data-bearing versions of vs: newest
\* timestamp and, among those, greatest value.
IsMaximal(w, vs) ==
  \A i \in WithData(vs) :
    \/ vs[i].Data[1].Timestamp < w.Data[1].Timestamp
    \/ /\ vs[i].Data[1].Timestamp = w.Data[1].Timestamp
       /\ LexLeq(vs[i].Data[1].Value, w.Data[1].Value)

-----------------------------------------------------------------------------
(* Properties.                                                             *)

\* C1 (quorum gate): a GET that collected fewer versions than ReadQuorum
\* returns ErrReadQuorum, whatever data the versions carry.
C1_QuorumGate ==
  \A t \in Tasks :
    (Returned(t) /\ Len(versions[t]) < config.ReadQuorum)
      => result[t] = <<Fail("ErrReadQuorum")>>

\* A GET cut short by the quorum gate although a collected version has data.
C1_Witness ==
  \E t \in Tasks :
    /\ Returned(t)
    /\ Len(versions[t]) < config.ReadQuorum
    /\ WithData(versions[t]) # {}
    /\ result[t] = <<Fail("ErrReadQuorum")>>

\* C2 (not found before shortfall): enough versions collected and none with
\* data gives ErrKeyNotFound, not ErrReadQuorum.
C2_NotFoundPriority ==
  \A t \in Tasks :
    (/\ Returned(t)
     /\ Len(versions[t]) >= config.ReadQuorum
     /\ WithData(versions[t]) = {})
      => result[t] = <<Fail("ErrKeyNotFound")>>

\* Unanimous absence under a quorum of all three hosts.
C2_Witness ==
  \E t \in Tasks :
    /\ Returned(t)
    /\ config.ReadQuorum = NumBackups + 1
    /\ Len(versions[t]) = NumBackups + 1
    /\ WithData(versions[t]) = {}
    /\ result[t] = <<Fail("ErrKeyNotFound")>>

\* C5 (data-bearing shortfall): enough versions collected, at least one with
\* data but fewer than ReadQuorum with data, gives ErrReadQuorum.
C5_DataShortfall ==
  \A t \in Tasks :
    (/\ Returned(t)
     /\ Len(versions[t]) >= config.ReadQuorum
     /\ WithData(versions[t]) # {}
     /\ Cardinality(WithData(versions[t])) < config.ReadQuorum)
      => result[t] = <<Fail("ErrReadQuorum")>>

\* The local copy is present, no backup delivered data, ReadQuorum is 2.
C5_Witness ==
  \E t \in Tasks :
    /\ Returned(t)
    /\ config.ReadQuorum = 2
    /\ WithData(versions[t]) = {1}
    /\ Len(versions[t]) = NumBackups + 1
    /\ result[t] = <<Fail("ErrReadQuorum")>>

\* C3 (winner determinism): the first element of sanitizeAndSortVersions is
\* one of the data-bearing input versions, has the newest timestamp and,
\* among the versions with that timestamp, the greatest value; and every
\* reordering of the input yields a winner with the same timestamp and value.
C3_WinnerDeterminism ==
  (sortOut # <<>> /\ WithData(sortIn) # {}) =>
    LET sorted == sortOut[1]
    IN /\ Len(sorted) = Cardinality(WithData(sortIn))
       /\ \E i \in WithData(sortIn) : sortIn[i] = sorted[1]
       /\ IsMaximal(sorted[1], sortIn)
       /\ \A p \in Permutations(1..Len(sortIn)) :
            LET other == sanitizeAndSortVersions([i \in 1..Len(sortIn) |-> sortIn[p[i]]])
            IN /\ other[1].Data[1].Timestamp = sorted[1].Data[1].Timestamp
               /\ other[1].Data[1].Value = sorted[1].Data[1].Value

\* A full-length input with a nil version, whose winner is its last element
\* and wins a timestamp tie by its value.
C3_Witness ==
  /\ sortOut # <<>>
  /\ Len(sortIn) = MaxSortLen
  /\ WithData(sortIn) # 1..Len(sortIn)
  /\ sortIn[Len(sortIn)].Data # <<>>
  /\ sortOut[1][1] = sortIn[Len(sortIn)]
  /\ \E i \in WithData(sortIn) :
       /\ sortIn[i].Data[1].Timestamp = sortOut[1][1].Data[1].Timestamp
       /\ sortIn[i].Data[1].Value # sortOut[1][1].Data[1].Value

\* The statement of C4 as written: enough versions collected and one of
\* them with data means the read is not rejected for quorum.
C4_Original ==
  \A t \in Tasks :
    (/\ Returned(t)
     /\ Len(versions[t]) >= config.ReadQuorum
     /\ WithData(versions[t]) # {})
      => result[t][1].Err # "ErrReadQuorum"

\* C4 as amended: when at least ReadQuorum of the collected versions carry
\* data, the read is not rejected for quorum: reconciliation selects a
\* collected version with the newest timestamp as winner; a winner that is
\* neither expired nor idle at the gate passes it, and the GET then returns
\* the winner's value.
C4_DataQuorumRead ==
  [][\A t \in Tasks :
       /\ (/\ pc[t] = "reconcile" /\ pc'[t] # "reconcile"
           /\ Cardinality(WithData(versions[t])) >= config.ReadQuorum)
            => /\ pc'[t] = "gate"
               /\ winner'[t] # <<>>
               /\ \E i \in WithData(versions[t]) : versions[t][i] = winner'[t][1]
               /\ \A i \in WithData(versions[t]) :
                    versions[t][i].Data[1].Timestamp <= winner'[t][1].Data[1].Timestamp
       /\ (/\ pc[t] = "gate" /\ pc'[t] # "gate"
           /\ ~isKeyExpired(winner[t][1].Data[1].TTL, now')
           /\ ~isKeyIdle(accessLog, config.MaxIdleDuration, now'))
            => pc'[t] = "log"
       /\ (pc[t] \in {"runlock", "repair"} /\ pc'[t] = "done")
            => result'[t] = <<Ok(winner[t][1].Data[1].Value)>>
       /\ (pc[t] = "gate" /\ pc'[t] = "done")
            => result'[t] = <<Fail("ErrKeyNotFound")>>
    ]_vars

\* ReadQuorum 2 met by two data-bearing versions next to a nil one; the
\* winner is a backup's newer copy and its value is returned.
C4_Witness ==
  \E t \in Tasks :
    /\ Returned(t)
    /\ config.ReadQuorum = 2
    /\ Cardinality(WithData(versions[t])) = 2
    /\ Len(versions[t]) = NumBackups + 1
    /\ winner[t] # <<>>
    /\ winner[t][1].origin # This
    /\ versions[t][1].Data # <<>>
    /\ versions[t][1].Data[1].Timestamp < winner[t][1].Data[1].Timestamp
    /\ result[t] = <<Ok(winner[t][1].Data[1].Value)>>

\* C6 (expiry opacity): a winner with ttl # 0 and now >= ttl at the gate
\* ends the GET with ErrKeyNotFound.
C6_ExpiryOpacity ==
  [][\A t \in Tasks :
       (/\ pc[t] = "gate" /\ pc'[t] # "gate"
        /\ winner[t][1].Data[1].TTL # 0
        /\ now' >= winner[t][1].Data[1].TTL)
         => /\ pc'[t] = "done"
            /\ result'[t] = <<Fail("ErrKeyNotFound")>>
    ]_vars

\* An expired winner hid an older copy without expiry held by another host.
C6_Witness ==
  \E t \in Tasks :
    /\ Returned(t)
    /\ winner[t] # <<>>
    /\ winner[t][1].Data[1].TTL # 0
    /\ now >= winner[t][1].Data[1].TTL
    /\ result[t] = <<Fail("ErrKeyNotFound")>>
    /\ \E i \in WithData(versions[t]) :
         /\ versions[t][i].origin # winner[t][1].origin
         /\ versions[t][i].Data[1].Timestamp < winner[t][1].Data[1].Timestamp
         /\ versions[t][i].Data[1].TTL = 0

\* C7 (conditional access-log update): the access log changes only in the
\* step dm.updateAccessLog of a GET that holds the read lock and keeps it in
\* that step, and a GET comes to that step only from the gate, with a winner
\* that is neither expired nor idle; a GET that returns ErrKeyNotFound or
\* ErrReadQuorum returns straight from reconciliation or from the gate, so
\* before it could touch the log, and its last step leaves the log as it
\* was.  The lookups, which run the GET-PREV and GET-BACKUP handlers, are
\* among the steps that leave it alone.
C7_AccessLogConditional ==
  [][/\ (accessLog' # accessLog) =>
          \E t \in Tasks :
            /\ pc[t] = "log" /\ pc'[t] = "runlock"
            /\ t \in rlockers /\ t \in rlockers'
            /\ accessLog' = <<now'>>
     /\ \A t \in Tasks :
          (pc[t] # "log" /\ pc'[t] = "log")
            => /\ pc[t] = "gate"
               /\ t \in rlockers
               /\ ~isKeyExpired(winner[t][1].Data[1].TTL, now')
               /\ ~isKeyIdle(accessLog, config.MaxIdleDuration, now')
     /\ \A t \in Tasks :
          (/\ pc[t] # "done" /\ pc'[t] = "done"
           /\ result'[t][1].Err \in {"ErrKeyNotFound", "ErrReadQuorum"})
            => /\ pc[t] \in {"reconcile", "gate"}
               /\ accessLog' = accessLog
    ]_vars

\* The task's last GET has refreshed the log with a late clock reading and
\* still holds the read lock.
C7_Witness ==
  \E t \in Tasks :
    /\ pc[t] = "runlock"
    /\ t \in rlockers
    /\ accessLog = <<now>>
    /\ now > 0
    /\ gets[t] = MaxGets

\* C8 (lock safety): a task inside read-repair holds no read lock, and a
\* task asking for the write lock holds no lock at all.
C8_LockSafety ==
  \A t \in Tasks :
    /\ pc[t] \in {"repair", "repairLock", "repairPut"} => t \notin rlockers
    /\ pc[t] = "repairLock" => wlocker # <<t>>

\* A local repair has acquired the write lock.
C8_Witness ==
  \E t \in Tasks :
    /\ pc[t] = "repairPut"
    /\ wlocker = <<t>>
    /\ rlockers = {}

\* Every collected version carries data with the winner's timestamp and value.
Consistent(t) ==
  /\ winner[t] # <<>>
  /\ \A i \in 1..Len(versions[t]) :
       /\ versions[t][i].Data # <<>>
       /\ versions[t][i].Data[1].Timestamp = winner[t][1].Data[1].Timestamp
       /\ versions[t][i].Data[1].Value = winner[t][1].Data[1].Value

\* C9 (read-repair idempotence): with ReadRepair on, a GET over a consistent
\* set of versions issues no repair write and never asks for the write lock.
C9_RepairIdempotent ==
  \A t \in Tasks :
    (config.ReadRepair /\ Consistent(t))
      => /\ sent[t] = <<>>
         /\ pc[t] \notin {"repairLock", "repairPut"}

\* A successful GET over three consistent hosts went through read-repair
\* and wrote nothing.
C9_Witness ==
  \E t \in Tasks :
    /\ Returned(t)
    /\ config.ReadRepair
    /\ Consistent(t)
    /\ Len(versions[t]) = NumBackups + 1
    /\ ri[t] = Len(versions[t]) + 1
    /\ result[t] = <<Ok(winner[t][1].Data[1].Value)>>
    /\ sent[t] = <<>>

\* C10 (read-repair convergence) as written: once a successful GET with
\* ReadRepair on that saw a stale or missing copy has returned, and none of
\* its repair writes failed, no host a version was collected from is left
\* without a copy or with a copy older than the winner, which is what makes
\* the next GET repair again.
C10_Convergence ==
  \A t \in Tasks :
    (/\ Returned(t)
     /\ result[t][1].Err = "nil"
     /\ config.ReadRepair
     /\ \A i \in 1..Len(sent[t]) : sent[t][i].outcome # "error")
      => \A i \in 1..Len(versions[t]) :
           LET h == versions[t][i].origin
           IN /\ storage[h] # <<>>
              /\ storage[h][1].Timestamp >= winner[t][1].Data[1].Timestamp

\* C13 (routing) as written: a node that is not the owner by its own table
\* serves the request without its pipeline, locks or storage; at most one
\* GET RPC is sent for a request; and the node that receives the RPC runs
\* the pipeline itself, whatever its own table says.
C13_Routing ==
  /\ (route.calls # <<>> /\ Here = This /\ ~isOwner) =>
        /\ rlockers = {} /\ wlocker = <<>>
        /\ \A t \in Tasks : pc[t] = "idle"
  /\ route.hops <= 1
  /\ Len(route.calls) >= 2 => isOwner

\* The repair write task t issues in this step, as a pointer: <<>> when the
\* step issues none.
Issued(t) ==
  IF Len(sent'[t]) = Len(sent[t]) + 1 THEN <<sent'[t][Len(sent'[t])]>> ELSE <<>>

\* C11 (late repair): a repair write changes the storage of no host but its
\* destination, and when the destination holds a record newer than the
\* winner of the GET that issues the write, the record stays as it is.
C11_LateRepair ==
  [][\A t \in ConcTasks :
       Issued(t) # <<>> =>
         LET e == Issued(t)[1]
         IN /\ \A g \in Hosts \ {e.to} : storage'[g] = storage[g]
            /\ (/\ storage[e.to] # <<>>
                /\ storage[e.to][1].Timestamp > winner[t][1].Data[1].Timestamp)
                 => storage'[e.to] = storage[e.to]
    ]_vars

\* A GET found no local copy, a writer stored a newer record on the owner
\* before the GET's local repair took the write lock, and the repair left
\* that record in place.
C11_Witness ==
  \E t \in ConcTasks :
    /\ versions[t] # <<>>
    /\ versions[t][1].Data = <<>>
    /\ \E i \in 1..Len(sent[t]) :
         /\ sent[t][i].op = "local"
         /\ sent[t][i].outcome = "rejected"
         /\ storage[This] # <<>>
         /\ storage[This][1].Timestamp > sent[t][i].write.Timestamp
         /\ storage[This][1].Value # sent[t][i].write.Value

\* The indices of the collected versions read-repair does not skip.
ToRepair(t) ==
  {i \in 1..Len(versions[t]) : ~alreadyCurrent(versions[t][i], winner[t][1])}

\* C12 (repair failures stay inside): from the release of the read lock on,
\* a GET sets no result until it returns, and then it returns the winner's
\* value with a nil error; a repair write that fails, local or remote, is
\* followed by the next version of the loop; and the GET returns only when
\* a write has been issued for every version that is not skipped.
C12_RepairSwallowed ==
  [][\A t \in Tasks :
       pc[t] \in {"runlock", "repair", "repairLock", "repairPut"} =>
         /\ IF pc'[t] = "done"
              THEN /\ result'[t] = <<Ok(winner[t][1].Data[1].Value)>>
                   /\ config.ReadRepair => Len(sent'[t]) = Cardinality(ToRepair(t))
              ELSE /\ result'[t] = <<>>
                   /\ pc'[t] \in {"runlock", "repair", "repairLock", "repairPut"}
         /\ (Issued(t) # <<>> /\ Issued(t)[1].outcome = "error")
              => /\ pc'[t] = "repair"
                 /\ ri'[t] > ri[t]
                 /\ versions[t][ri'[t] - 1].origin = Issued(t)[1].origin
    ]_vars

\* A GET returned the winner's value after its local write and, next, its
\* remote write had both failed.
C12_Witness ==
  \E t \in Tasks :
    /\ Returned(t)
    /\ Len(sent[t]) = 2
    /\ sent[t][1].op = "local" /\ sent[t][1].outcome = "error"
    /\ sent[t][2].op # "local" /\ sent[t][2].outcome = "error"
    /\ result[t] = <<Ok(winner[t][1].Data[1].Value)>>

\* C14 (repair routing) as written: the host a version carries is the host
\* it was read from, every repair write goes to the host its version was
\* read from, and a write is local only for the version of the local node.
C14_RepairRouting ==
  \A t \in Tasks :
    /\ \A i \in 1..Len(versions[t]) : versions[t][i].host = versions[t][i].origin
    /\ \A i \in 1..Len(sent[t]) :
         /\ sent[t][i].to = sent[t][i].origin
         /\ sent[t][i].op = "local" <=> sent[t][i].origin = This

\* C15 (previous-owner versions) as written: in a state from which
\* lookupOnOwners runs, whichever GET-PREV requests get through, every
\* previous owner that is reached and answers with an encoded record yields
\* a version with that record as its data.
C15_PrevOwnerVersions ==
  \A t \in Tasks :
    pc[t] = "owners" =>
      \A up \in SUBSET (1..NumPrev), n \in now..MaxNow :
        LET vs == lookupOnOwners(up, storage, n)
        IN \A i \in up :
             getPrevOperation(storage[owners[i]], n).status = "OK"
               => \E k \in 1..Len(vs) :
                    /\ vs[k].origin = owners[i]
                    /\ vs[k].Data = storage[owners[i]]

\* The indices of the versions of vs read from host h.
From(vs, h) == {i \in 1..Len(vs) : vs[i].origin = h}

\* C16 (failure asymmetry): when a GET that consults the replicas comes to
\* reconciliation, the collected set holds, first, one version of the local
\* node with the data of the local storage (nil when it has none); one
\* version per backup, whose data is nil or the record the backup holds,
\* unexpired; and at most one version per previous owner, never one without
\* data.  Nothing else is in the set, so the local node occurs once.
C16_FailureAsymmetry ==
  \A t \in Tasks :
    (pc[t] = "reconcile" /\ config.ReadQuorum >= config.MinimumReplicaCount) =>
      LET vs == versions[t]
      IN /\ \A i \in 1..Len(vs) : vs[i].origin \in Hosts
         /\ From(vs, This) = {1}
         /\ vs[1].Data = storage[This]
         /\ \A j \in 1..NumBackups :
              /\ Cardinality(From(vs, backups[j])) = 1
              /\ \A i \in From(vs, backups[j]) :
                   \/ vs[i].Data = <<>>
                   \/ /\ vs[i].Data = storage[backups[j]]
                      /\ ~isKeyExpired(vs[i].Data[1].TTL, now)
         /\ \A j \in 1..NumPrev :
              /\ Cardinality(From(vs, owners[j])) <= 1
              /\ \A i \in From(vs, owners[j]) :
                   vs[i].Data # <<>> /\ vs[i].Data = storage[owners[j]]

\* A collected set with a nil-data version for a backup that holds a live
\* record (its RPC failed), a data-bearing version for another backup, and
\* no version for a previous owner that holds a record.
C16_Witness ==
  \E t \in Tasks :
    /\ pc[t] = "reconcile"
    /\ config.ReadQuorum >= config.MinimumReplicaCount
    /\ Len(versions[t]) = NumBackups + 1
    /\ \E i \in 1..Len(versions[t]) :
         /\ versions[t][i].Data = <<>>
         /\ versions[t][i].origin # This
         /\ storage[versions[t][i].origin] # <<>>
         /\ ~isKeyExpired(storage[versions[t][i].origin][1].TTL, now)
    /\ \E i \in 1..Len(versions[t]) :
         versions[t][i].Data # <<>> /\ versions[t][i].origin # This
    /\ \E j \in 1..NumPrev :
         storage[owners[j]] # <<>> /\ From(versions[t], owners[j]) = {}

\* The indices of ToRepair(t) in the order of the collected set.
RepairOrder(t) ==
  SelectSeq([i \in 1..Len(versions[t]) |-> i], LAMBDA i : i \in ToRepair(t))

\* C17 (repair selection and content): in a GET with a winner, the repair
\* writes issued so far are, in the order of the collected set, one for each
\* version whose data is nil or whose timestamp differs from the winner's,
\* and none for any other version; each carries the winner's key, value,
\* timestamp and ttl; the write for the local version is a local write, any
\* other is a PUT-REPLICA when the winner's ttl is 0 and a PUT-EX-REPLICA
\* otherwise.  When the GET has returned a value with ReadRepair on, no
\* such version is left without its write.
C17_RepairSelection ==
  \A t \in Tasks :
    winner[t] # <<>> =>
      LET order == RepairOrder(t)
          w == winner[t][1].Data[1]
      IN /\ Len(sent[t]) <= Len(order)
         /\ \A k \in 1..Len(sent[t]) :
              /\ sent[t][k].origin = versions[t][order[k]].origin
              /\ sent[t][k].write = [Key |-> w.Key, Value |-> w.Value,
                                     Timestamp |-> w.Timestamp, TTL |-> w.TTL]
              /\ sent[t][k].op =
                   IF sent[t][k].origin = This THEN "local"
                   ELSE IF w.TTL = 0 THEN "PutReplica" ELSE "PutExReplica"
         /\ (pc[t] = "done" /\ result[t][1].Err = "nil" /\ config.ReadRepair)
              => Len(sent[t]) = Len(order)

\* ReadQuorum 2, an older local copy and a newer one on a backup: the GET
\* returned the backup's value and issued one write, a local one with the
\* newer timestamp.
C17_Witness ==
  \E t \in Tasks :
    /\ Returned(t)
    /\ config.ReadQuorum = 2
    /\ winner[t] # <<>>
    /\ versions[t][1].Data # <<>>
    /\ versions[t][1].Data[1].Timestamp < winner[t][1].Data[1].Timestamp
    /\ winner[t][1].origin # This
    /\ result[t] = <<Ok(winner[t][1].Data[1].Value)>>
    /\ Len(sent[t]) = 1
    /\ sent[t][1].op = "local"
    /\ sent[t][1].write.Timestamp = winner[t][1].Data[1].Timestamp
    /\ sent[t][1].write.Timestamp = MaxTs

\* C19 (no repair without a successful read): the storage of a host changes
\* only in a step that issues a repair write; a task issues one only inside
\* read-repair, with ReadRepair on, a winner selected and no read lock held;
\* it enters read-repair only from the release of the read lock, which it
\* reaches only from the access-log update that follows a passed gate; and
\* a GET that returns an error, or returns with ReadRepair off, does not
\* return from read-repair and has issued no write.
C19_NoRepairWithoutRead ==
  [][/\ storage' # storage => \E t \in Tasks : Issued(t) # <<>>
     /\ \A t \in Tasks :
          /\ Issued(t) # <<>> =>
               /\ pc[t] \in {"repair", "repairPut"}
               /\ config.ReadRepair
               /\ winner[t] # <<>>
               /\ t \notin rlockers
          /\ (/\ pc[t] \notin {"repair", "repairLock", "repairPut"}
              /\ pc'[t] \in {"repair", "repairLock", "repairPut"})
               => /\ pc[t] = "runlock"
                  /\ config.ReadRepair
                  /\ t \notin rlockers'
          /\ (pc[t] # "runlock" /\ pc'[t] = "runlock") => pc[t] = "log"
          /\ (/\ pc[t] # "done" /\ pc'[t] = "done"
              /\ (result'[t][1].Err # "nil" \/ ~config.ReadRepair))
               => /\ pc[t] \notin {"repair", "repairLock", "repairPut"}
                  /\ sent'[t] = <<>>
    ]_vars

\* With ReadRepair on, a GET whose winner had expired returned
\* ErrKeyNotFound and wrote nothing, although it had collected a version
\* that differs from the winner.
C19_Witness ==
  \E t \in Tasks :
    /\ Returned(t)
    /\ config.ReadRepair
    /\ winner[t] # <<>>
    /\ result[t] = <<Fail("ErrKeyNotFound")>>
    /\ ToRepair(t) # {}
    /\ sent[t] = <<>>

\* C18 (termination and lock release): under the fairness of LiveSpec, no
\* GET stays for ever between its start and its return, so none waits for
\* ever for the read lock or, in a local repair, for the write lock; a local
\* repair that is past dm.Lock holds the write lock and gives it up with
\* its next step; a task that is outside a GET holds no lock; and a task's
\* hold on the read lock begins only at dm.RLock and ends only at one of the
\* returns of reconciliation and gate or at the RUnlock before read-repair,
\* so once per acquisition.
C18_Termination ==
  /\ \A t \in ConcTasks : []<>(pc[t] \in {"idle", "done"})
  /\ [](\A t \in ConcTasks :
          /\ pc[t] \in {"idle", "done"} => (t \notin rlockers /\ wlocker # <<t>>)
          /\ pc[t] = "repairPut" <=> wlocker = <<t>>)
  /\ [][\A t \in ConcTasks :
          /\ (t \notin rlockers /\ t \in rlockers') => pc[t] = "rlock"
          /\ (t \in rlockers /\ t \notin rlockers')
               => /\ pc[t] \in {"reconcile", "gate", "runlock"}
                  /\ pc'[t] \in {"done", "repair"}
          /\ (t \in rlockers /\ t \in rlockers')
               => pc'[t] \in {"owners", "replicas", "reconcile", "gate",
                              "log", "runlock"}
          /\ (pc[t] = "repairPut" /\ pc'[t] # "repairPut") => wlocker' = <<>>
       ]_vars

\* Both GETs have returned after a local repair each, the writer has
\* written, and the lock is free.
C18_Witness ==
  /\ \A t \in ConcTasks :
       /\ pc[t] = "done"
       /\ \E i \in 1..Len(sent[t]) : sent[t][i].op = "local"
  /\ \A w \in Writers : pc[w] = "idle" /\ gets[w] = MaxGets
  /\ rlockers = {}
  /\ wlocker = <<>>

\* The tasks that are at a mutation of the owner's DMap: the access-log
\* update of a GET, the local write of a repair, the write of a writer.
Mutating == {t \in ConcTasks \cup Writers : pc[t] \in {"log", "repairPut", "wput"}}

\* C20 (mutual exclusion on the DMap's shared state): a task that is at a
\* mutation of the access log or of the storage holds the DMap's lock; no
\* two tasks are at such a mutation at the same time, so two concurrent
\* GETs are never both at the access-log update; and while a local repair
\* write (or a writer) holds the write lock no GET is in its locked section.
C20_MutualExclusion ==
  /\ \A t \in ConcTasks : pc[t] = "log" => t \in rlockers
  /\ \A t \in ConcTasks \cup Writers :
       pc[t] \in {"repairPut", "wput"} => wlocker = <<t>>
  /\ Cardinality(Mutating) <= 1
  /\ wlocker # <<>> => rlockers = {}

=============================================================================
